---- MODULE Spec2Model ----
(***************************************************************************)
(* Verification model of stream-lib: the Sluice (flow gate, a Duplex       *)
(* stream with an inlet and an outlet valve) and the Pump (moves chunks    *)
(* between a readable/writable source and a readable/writable              *)
(* destination), source src/lib/sluice.js; and the EventStream (a          *)
(* Transform that dispatches each chunk to its receivers), source          *)
(* src/lib/event.js.                                                       *)
(*                                                                         *)
(* The Node.js stream base classes the code extends (stream.Duplex,        *)
(* stream.Readable, stream.Writable) are modelled by their contract: a     *)
(* Writable hands one chunk at a time to _write and holds later writes     *)
(* back until the callback of the current one has been invoked; 'finish'   *)
(* is emitted after end() once no write is outstanding; a Readable calls   *)
(* _read when its consumer asks for data and no _read is outstanding.      *)
(***************************************************************************)
EXTENDS Integers, Sequences, FiniteSets, TLC

VARIABLES
    sluice,        \* the Sluice instance and the stream state of its two sides
    nWrites,       \* history: number of write() calls made on the Sluice so far
    wroteClosed,   \* history: chunks written while flowIn was false
    wroteOpen,     \* history: chunks written while flowIn was true, in order
    scen,          \* history: progress of a pourIn / write* / pourOut scenario
    pump,          \* a Pump instance, its source and destination streams, its timers
    ev             \* an EventStream instance and the history of its last dispatch

sluiceVars == <<sluice, nWrites, wroteClosed, wroteOpen, scen>>

vars == <<sluice, nWrites, wroteClosed, wroteOpen, scen, pump, ev>>

\* Number of write() calls the upstream writer makes on a Sluice.
MaxWrites == 3

\* Number of chunks the source of a Pump produces before it ends.
MaxChunks == 3

\* highWaterMark of a readable destination: _read is requested only while fewer
\* chunks than this wait unconsumed in its buffer.
DstHighWaterMark == 2

\* Number of zero-delay destroy() re-checks tracked as pending at a time.
MaxTimers == 2

\* Number of receive() / receiveOnce() calls made on an EventStream.
MaxReceivers == 3

\* Number of chunks written to an EventStream.
MaxEvents == 2

\* The value null: the completion marker in Sluice.buffer and the end signal of push().
Null == 0

Range(q) == {q[i] : i \in 1..Len(q)}

(***************************************************************************)
(* Sluice                                                                  *)
(***************************************************************************)

\* Readable.push(x) on the Sluice's downstream side: x is handed to the consumer
\* side (out records every value handed over, null included) and the
\* outstanding _read request is answered.  endOutlet records the outlet valve at
\* the moment null is handed over.
StreamPush(s, x) ==
    [s EXCEPT !.out = Append(@, x),
              !.reading = FALSE,
              !.endOutlet = IF x = Null THEN <<s.flowOut>> ELSE @]

\* A queue that takes new entries at its head: this.buffer.unshift(x).
BufferPush_Unshift(s, x) ==
    [s EXCEPT !.buffer = <<x>> \o @, !.queued = Append(@, x)]

\* this.buffer.push(x); queued is the history of everything ever put in buffer.
BufferPush(s, x) ==
    [s EXCEPT !.buffer = Append(@, x), !.queued = Append(@, x)]

\* while (this.buffer.length) { this.push(this.buffer.shift()); }
RECURSIVE ShiftAll(_)
ShiftAll(s) ==
    IF s.buffer = <<>> THEN s
    ELSE ShiftAll(StreamPush([s EXCEPT !.buffer = Tail(@)], Head(s.buffer)))

\* _read without the test of flowOut.
SluiceRead_IgnoresOutlet(s) ==
    ShiftAll(s)

\* Sluice.prototype._read
SluiceRead(s) ==
    IF ~s.flowOut THEN s ELSE ShiftAll(s)

\* The callback next() of a write: the Writable's current write is complete.
\* (No write is ever held back at this point: a write is only held back after a
\* _write whose callback is never invoked.)
WriteCallback(s) ==
    [s EXCEPT !.writing = FALSE]

\* Sluice.prototype._write: next() is invoked only when the inlet is closed, and
\* there is no return after it, so the chunk is put in the buffer either way.
SluiceWrite(s, chunk) ==
    LET s1 == IF ~s.flowIn THEN WriteCallback(s) ELSE s
        s2 == BufferPush(s1, chunk)
    IN  SluiceRead(s2)

\* Writable.write(chunk) on the Sluice's upstream side: _write is called at once
\* unless a previous _write has not invoked its callback yet; then the chunk
\* waits inside the Writable.
StreamWrite(s, chunk) ==
    IF s.writing
        THEN [s EXCEPT !.pending = Append(@, chunk)]
        ELSE SluiceWrite([s EXCEPT !.writing = TRUE], chunk)

\* A 'finish' listener that closes the downstream side at once: this.push(null).
SluiceOnFinish_ClosesAtOnce(s) ==
    StreamPush([s EXCEPT !.finished = TRUE], Null)

\* The 'finish' listener installed by the constructor: this.buffer.push(null).
SluiceOnFinish(s) ==
    BufferPush([s EXCEPT !.finished = TRUE], Null)

openInlet(s) == [s EXCEPT !.flowIn = TRUE]

closeInlet(s) == [s EXCEPT !.flowIn = FALSE]

openOutlet(s) == SluiceRead([s EXCEPT !.flowOut = TRUE])

\* An outlet operation that flips the valve instead of closing it.
closeOutlet_Toggles(s) == [s EXCEPT !.flowOut = ~@]

closeOutlet(s) == [s EXCEPT !.flowOut = FALSE]

pourIn(s) == openInlet(closeOutlet(s))

pourOut(s) == closeInlet(openOutlet(s))

fullFlow(s) == openInlet(openOutlet(s))

freeze(s) == closeInlet(closeOutlet(s))

(***************************************************************************)
(* Pump                                                                    *)
(*                                                                         *)
(* The record pump holds the fields of a Pump instance, the state of the   *)
(* stream registered as its source (a Readable with an internal buffer, or *)
(* a Writable whose _write the Pump replaces), the state of the stream     *)
(* registered as its destination (a Readable whose _read the Pump          *)
(* replaces, or a Writable), the pending timers and history fields.        *)
(* Chunks are numbered 1, 2, ... in the order the source produces them.    *)
(***************************************************************************)

\* new Pump(): every field from the prototype; streams not yet in use.
PumpNew ==
    [source |-> 0, sourceType |-> "none",
     destination |-> 0, destinationType |-> "none",
     sourceIsReady |-> FALSE, sourceIsFinished |-> FALSE,
     destinationIsReady |-> FALSE,
     lastChunk |-> Null, lastNext |-> Null,
     \* onPump: "default" for Pump.prototype.onPump, "filter" for the policy of
     \* eventStream.filter, which lets the chunks in accept through
     policy |-> "default", accept |-> {},
     \* readable source: internal buffer, chunks produced, null pushed,
     \* needReadable, 'readable' scheduled, 'end' scheduled, 'end' emitted
     srcBuf |-> <<>>, srcProduced |-> 0, srcEnded |-> FALSE,
     srcNeedReadable |-> TRUE, srcReadablePending |-> FALSE,
     srcEndPending |-> FALSE, srcEndEmitted |-> FALSE,
     \* writable source: a _write awaits its callback, writes held back,
     \* chunks written, end() called, the 'finish' timer has fired
     wWriting |-> FALSE, wPending |-> <<>>, wWritten |-> 0,
     wEnding |-> FALSE, wFinishFired |-> FALSE,
     \* readable destination: unconsumed buffer, a _read is unanswered
     dstBuf |-> <<>>, dstReading |-> FALSE,
     \* pending setTimeout(destroy, 0) callbacks
     timers |-> 0,
     \* history
     delivered |-> <<>>,        \* chunks handed to the destination, in order
     nullHanded |-> 0,          \* null values a transfer handed to the destination
     closes |-> 0,              \* end signals given to the destination
     lateHanded |-> 0,          \* chunks handed after an end signal
     unsafeEnd |-> FALSE,       \* unforced end signal while dstBuf was not empty
     nextCalls |-> <<>>,        \* continuations invoked, by chunk
     waited |-> FALSE,          \* destroy() has put itself off at least once
     nextEarly |-> FALSE,       \* a continuation was invoked before its chunk was handed over
     attempts |-> 0,            \* transfers pump() has started
     seen |-> <<>>,             \* chunks the installed policy was invoked with
     errored |-> FALSE,         \* the source has emitted 'error'
     errorWithDest |-> FALSE,   \* ... while a destination was registered
     forced |-> FALSE,          \* destroy(true) has been called
     early |-> FALSE,           \* a stream was active before both were registered
     threw |-> "none"]          \* error thrown by the last call, if any

\* destination.push(chunk) on a readable destination.
DestPush(p, chunk) ==
    IF chunk = Null
        THEN [p EXCEPT !.closes = @ + 1,
                       !.nullHanded = @ + 1,
                       !.dstReading = FALSE,
                       !.unsafeEnd = @ \/ p.dstBuf # <<>>]
    ELSE IF p.closes > 0
        THEN [p EXCEPT !.delivered = Append(@, chunk), !.lateHanded = @ + 1]
    ELSE [p EXCEPT !.dstBuf = Append(@, chunk),
                   !.delivered = Append(@, chunk),
                   !.dstReading = FALSE]

\* destination.write(chunk) on a writable destination.
DestWrite(p, chunk) ==
    IF chunk = Null
        THEN [p EXCEPT !.nullHanded = @ + 1]
    ELSE IF p.closes > 0
        THEN [p EXCEPT !.delivered = Append(@, chunk), !.lateHanded = @ + 1]
    ELSE [p EXCEPT !.delivered = Append(@, chunk)]

\* A wait() that sets no timer.
wait_NoTimer(p) ==
    [p EXCEPT !.waited = TRUE]

\* setTimeout(function () { self.destroy(); }, 0)
wait(p) ==
    [p EXCEPT !.timers = IF @ < MaxTimers THEN @ + 1 ELSE @,
              !.waited = TRUE]

\* destroy with its force argument ignored.
destroy_NeverForced(p, force) ==
    IF p.destinationType = "readable" /\ Len(p.dstBuf) # 0
        THEN wait(p)
    ELSE IF p.sourceType = "writable" /\ ~p.wEnding
        THEN wait(p)
    ELSE IF p.destinationType = "readable"
        THEN [p EXCEPT !.closes = @ + 1, !.dstReading = FALSE]
    ELSE IF p.destinationType = "writable"
        THEN [p EXCEPT !.closes = @ + 1]
    ELSE p

\* Pump.prototype.destroy
destroy(p, force) ==
    IF ~force /\ p.destinationType = "readable" /\ Len(p.dstBuf) # 0
        THEN wait(p)
    ELSE IF ~force /\ p.sourceType = "writable" /\ ~p.wEnding
        THEN wait(p)
    ELSE IF p.destinationType = "readable"
        THEN [p EXCEPT !.closes = @ + 1,
                       !.dstReading = FALSE,
                       !.unsafeEnd = @ \/ (~force /\ p.dstBuf # <<>>)]
    ELSE IF p.destinationType = "writable"
        THEN [p EXCEPT !.closes = @ + 1]
    ELSE p

\* The value source.read() returns on a readable source.
SourceReadValue(p) ==
    IF p.srcBuf = <<>> THEN Null ELSE Head(p.srcBuf)

\* The effect of source.read() on a readable source: the head of the buffer is
\* taken; a read that returns null or empties the buffer asks for the next
\* 'readable'; reading up to the end schedules 'end'.
SourceRead(p) ==
    LET rest == IF p.srcBuf = <<>> THEN <<>> ELSE Tail(p.srcBuf) IN
    [p EXCEPT !.srcBuf = rest,
              !.srcNeedReadable = @ \/ p.srcBuf = <<>> \/ (rest = <<>> /\ ~p.srcEnded),
              !.srcEndPending = @ \/ (p.srcEnded /\ rest = <<>> /\ ~p.srcEndEmitted)]

\* source.read(0) on a readable source: consumes nothing; at the end of the
\* stream it schedules 'readable' (when one is asked for and data is left) or
\* 'end' (when no data is left); otherwise it only lets the source refill.
SourceReadZero(p) ==
    IF ~p.srcEnded THEN p
    ELSE IF p.srcBuf = <<>>
        THEN [p EXCEPT !.srcEndPending = @ \/ ~p.srcEndEmitted]
    ELSE IF p.srcNeedReadable
        THEN [p EXCEPT !.srcReadablePending = TRUE, !.srcNeedReadable = FALSE]
    ELSE p

RECURSIVE PumpFn(_)

\* source._write installed by registerWritableSource.
SourceWriteHook(p, chunk) ==
    PumpFn([p EXCEPT !.lastChunk = chunk,
                     !.lastNext = chunk,
                     !.sourceIsReady = TRUE])

\* source.next(): the continuation of the write of chunk c.  The Writable's
\* current write is complete, and a write held back is handed to _write at once.
SourceNext(p, c) ==
    LET p1 == [p EXCEPT !.wWriting = FALSE,
                        !.nextCalls = Append(@, c),
                        !.nextEarly = @ \/ (p.policy = "default"
                                            /\ c \notin Range(p.delivered))] IN
    IF p.wWriting /\ p.wPending # <<>>
        THEN SourceWriteHook([p1 EXCEPT !.wWriting = TRUE, !.wPending = Tail(@)],
                             Head(p.wPending))
        ELSE p1

\* A default transfer that invokes the continuation before it hands the chunk
\* to the destination.
onPump_NextFirst(p, view) ==
    LET p1 == IF ~p.sourceIsFinished /\ p.sourceType = "writable"
                  THEN SourceNext(p, view.next) ELSE p
        chunk == IF p.sourceType = "readable" THEN SourceReadValue(p)
                 ELSE view.chunk
        p2 == IF p.sourceType = "readable" THEN SourceRead(p1) ELSE p1
        p3 == IF p2.destinationType = "readable" THEN DestPush(p2, chunk)
              ELSE DestWrite(p2, chunk)
    IN  IF ~p3.sourceIsFinished /\ p3.sourceType = "readable"
            THEN SourceReadZero(p3) ELSE p3

\* Pump.prototype.onPump (the default transfer); view is the source argument
\* built by pump() for a writable source.
onPump(p, view) ==
    LET chunk == IF p.sourceType = "readable" THEN SourceReadValue(p)
                 ELSE IF p.sourceType = "writable" THEN view.chunk
                 ELSE Null
        p1 == IF p.sourceType = "readable" THEN SourceRead(p) ELSE p
        p2 == IF p1.destinationType = "readable" THEN DestPush(p1, chunk)
              ELSE IF p1.destinationType = "writable" THEN DestWrite(p1, chunk)
              ELSE p1
    IN  IF ~p2.sourceIsFinished
            THEN IF p2.sourceType = "writable" THEN SourceNext(p2, view.next)
                 ELSE IF p2.sourceType = "readable" THEN SourceReadZero(p2)
                 ELSE p2
            ELSE p2

\* The policy eventStream.filter hands to the Pump of an event stream (writable
\* source, readable destination): a chunk the filter accepts is pushed to the
\* destination, for any other chunk the destination is marked ready again; the
\* continuation is invoked either way.
filterPolicy(p, view) ==
    LET p0 == [p EXCEPT !.seen = Append(@, view.chunk)]
        p1 == IF view.chunk \in p.accept
                  THEN DestPush(p0, view.chunk)
                  ELSE [p0 EXCEPT !.destinationIsReady = TRUE]
    IN  SourceNext(p1, view.next)

\* A constructor that drops its argument: this.onPump is always the prototype's.
thisOnPump_IgnoresPolicy(p, view) ==
    onPump(p, view)

\* this.onPump: the function given to the constructor, or else the prototype's.
thisOnPump(p, view) ==
    IF p.policy = "filter" THEN filterPolicy(p, view) ELSE onPump(p, view)

\* pump() with the source-ready flag left set.
ClearReady_KeepsSourceReady(p) ==
    [p EXCEPT !.destinationIsReady = IF p.destinationType # "writable" THEN FALSE ELSE @]

\* pump() with the destination-ready flag cleared in every pairing.
ClearReady_ClearsBoth(p) ==
    [p EXCEPT !.sourceIsReady = FALSE, !.destinationIsReady = FALSE]

\* The flags pump() clears before a transfer.
ClearReady(p) ==
    [p EXCEPT !.sourceIsReady = FALSE,
              !.destinationIsReady = IF p.destinationType # "writable" THEN FALSE ELSE @]

\* pump() that starts a transfer as soon as the source is ready.
PumpFn_IgnoresDestinationReady(p) ==
    IF p.sourceIsReady
        THEN thisOnPump([ClearReady(p) EXCEPT !.attempts = @ + 1],
                        [chunk |-> p.lastChunk, next |-> p.lastNext])
    ELSE IF p.sourceIsFinished
        THEN destroy(p, FALSE)
    ELSE p

\* Pump.prototype.pump
PumpFn(p) ==
    IF p.sourceIsReady /\ p.destinationIsReady
        THEN LET p1 == [ClearReady(p) EXCEPT !.attempts = @ + 1]
                 view == [chunk |-> p.lastChunk, next |-> p.lastNext]
             IN  IF p1.sourceType = "readable" /\ p1.destinationType = "writable"
                     THEN [thisOnPump(p1, view) EXCEPT !.sourceIsReady = FALSE]
                 ELSE IF p1.sourceType = "readable" /\ p1.destinationType = "readable"
                     THEN thisOnPump(p1, view)
                 ELSE IF p1.sourceType = "writable" /\ p1.destinationType = "readable"
                     THEN thisOnPump(p1, view)
                 ELSE IF p1.sourceType = "writable" /\ p1.destinationType = "writable"
                     THEN thisOnPump(p1, view)
                 ELSE p1
    ELSE IF p.sourceIsFinished
        THEN destroy(p, FALSE)
    ELSE p

\* registerReadableSource that stores the stream before it tests source.readable.
registerReadableSource_AssignsFirst(p, stream, readable) ==
    IF p.source # 0
        THEN [p EXCEPT !.threw = "There is already a source"]
    ELSE IF ~readable
        THEN [p EXCEPT !.source = stream, !.sourceType = "readable",
                       !.threw = "This stream is not readable"]
    ELSE [p EXCEPT !.source = stream, !.sourceType = "readable"]

\* Pump.prototype.registerReadableSource; readable is source.readable.
registerReadableSource(p, stream, readable) ==
    IF p.source # 0
        THEN [p EXCEPT !.threw = "There is already a source"]
    ELSE IF ~readable
        THEN [p EXCEPT !.threw = "This stream is not readable"]
    ELSE [p EXCEPT !.source = stream, !.sourceType = "readable"]

\* Pump.prototype.registerWritableSource; writable is source.writable.
registerWritableSource(p, stream, writable) ==
    IF p.source # 0
        THEN [p EXCEPT !.threw = "There is already a source"]
    ELSE IF ~writable
        THEN [p EXCEPT !.threw = "This stream is not writable"]
    ELSE [p EXCEPT !.source = stream, !.sourceType = "writable"]

\* Pump.prototype.registerReadableDestination; readable is destination.readable.
registerReadableDestination(p, stream, readable) ==
    IF p.destination # 0
        THEN [p EXCEPT !.threw = "There is already a destination"]
    ELSE IF ~readable
        THEN [p EXCEPT !.threw = "This stream is not readable"]
    ELSE [p EXCEPT !.destination = stream, !.destinationType = "readable"]

\* Pump.prototype.registerWritableDestination; writable is destination.writable.
registerWritableDestination(p, stream, writable) ==
    IF p.destination # 0
        THEN [p EXCEPT !.threw = "There is already a destination"]
    ELSE IF ~writable
        THEN [p EXCEPT !.threw = "This stream is not writable"]
    ELSE [p EXCEPT !.destination = stream, !.destinationType = "writable",
                   !.destinationIsReady = TRUE]

(***************************************************************************)
(* EventStream                                                             *)
(*                                                                         *)
(* A receiver is a record [id, matcher, once]: id names the handle, matcher *)
(* is the set of event names its name.test accepts, once tells receiveOnce *)
(* from receive.  A chunk is a record [name, data].                        *)
(***************************************************************************)

\* The event names in use.
Names == {"a", "b"}

\* What a name argument can accept: one name (a string) or several (a
\* pattern or a predicate).
Matchers == {{"a"}, {"b"}, {"a", "b"}}

\* new EventStream(): this.eventStreamListeners = [].  invoked lists the calls
\* fn(data) of the last _transform as <<id, data>>, expected the receivers
\* that were registered and matching when its chunk arrived; calls counts the
\* calls of each receiver's fn over the stream's life, onceHandles holds the
\* receivers made by receiveOnce.
EventStreamNew ==
    [eventStreamListeners |-> <<>>, handles |-> 0, events |-> 0, pushed |-> <<>>,
     invoked |-> <<>>, expected |-> {}, onceHandles |-> {},
     calls |-> [id \in 1..MaxReceivers |-> 0]]

\* this.eventStreamListeners.indexOf(handle): 0 stands for -1.
IndexOf(listeners, id) ==
    IF \E k \in 1..Len(listeners) : listeners[k].id = id
        THEN CHOOSE k \in 1..Len(listeners) :
                 listeners[k].id = id /\ \A j \in 1..(k - 1) : listeners[j].id # id
        ELSE 0

\* EventStream.prototype.removeReceiver
removeReceiver(e, id) ==
    LET pos == IndexOf(e.eventStreamListeners, id) IN
    IF pos = 0 THEN e
    ELSE [e EXCEPT !.eventStreamListeners =
                       SubSeq(@, 1, pos - 1) \o SubSeq(@, pos + 1, Len(@))]

\* fn(chunk.data) of the receiver id.
CallFn(e, id, chunk) ==
    [e EXCEPT !.invoked = Append(@, <<id, chunk.data>>), !.calls[id] = @ + 1]

\* The handle built by receive (once = FALSE) or receiveOnce (once = TRUE).
Handle(e, h, chunk) ==
    IF chunk.name \in h.matcher
        THEN IF h.once THEN CallFn(removeReceiver(e, h.id), h.id, chunk)
                       ELSE CallFn(e, h.id, chunk)
        ELSE e

\* for (i = 0; i < this.eventStreamListeners.length; i += 1)
\*     this.eventStreamListeners[i](chunk);      (i counts from 1 here)
RECURSIVE DispatchFrom(_, _, _)
DispatchFrom(e, i, chunk) ==
    IF i > Len(e.eventStreamListeners) THEN e
    ELSE DispatchFrom(Handle(e, e.eventStreamListeners[i], chunk), i + 1, chunk)

\* EventStream.prototype._transform
EventTransform(e, chunk) ==
    LET e1 == [e EXCEPT !.pushed = Append(@, chunk),
                        !.events = @ + 1,
                        !.invoked = <<>>,
                        !.expected = {e.eventStreamListeners[k].id :
                                         k \in {j \in 1..Len(e.eventStreamListeners) :
                                                   chunk.name \in e.eventStreamListeners[j].matcher}}]
    IN  DispatchFrom(e1, 1, chunk)

\* EventStream.prototype.receive / receiveOnce: the handle is appended.
AddReceiver(e, matcher, once) ==
    [e EXCEPT !.handles = @ + 1,
              !.onceHandles = IF once THEN @ \cup {e.handles + 1} ELSE @,
              !.eventStreamListeners =
                  Append(@, [id |-> e.handles + 1, matcher |-> matcher, once |-> once])]

\* new Sluice(): buffer = [], flowIn and flowOut from the prototype (true).
SluiceNew ==
    [flowIn |-> TRUE, flowOut |-> TRUE, buffer |-> <<>>,
     writing |-> FALSE, pending |-> <<>>, ending |-> FALSE, finished |-> FALSE,
     out |-> <<>>, reading |-> FALSE, endOutlet |-> <<>>, queued |-> <<>>]

ScenNone == [phase |-> "none", base |-> 0, writes |-> <<>>]

SluiceInit ==
    /\ sluice = SluiceNew
    /\ nWrites = 0
    /\ wroteClosed = {}
    /\ wroteOpen = <<>>
    /\ scen = ScenNone
    /\ pump = PumpNew
    /\ ev = EventStreamNew

\* A valve operation other than pourIn / pourOut ends a fill-then-drain scenario.
OpenInlet ==
    /\ sluice' = openInlet(sluice)
    /\ scen' = ScenNone
    /\ UNCHANGED <<nWrites, wroteClosed, wroteOpen, pump, ev>>

CloseInlet ==
    /\ sluice' = closeInlet(sluice)
    /\ scen' = ScenNone
    /\ UNCHANGED <<nWrites, wroteClosed, wroteOpen, pump, ev>>

OpenOutlet ==
    /\ sluice' = openOutlet(sluice)
    /\ scen' = ScenNone
    /\ UNCHANGED <<nWrites, wroteClosed, wroteOpen, pump, ev>>

CloseOutlet ==
    /\ sluice' = closeOutlet(sluice)
    /\ scen' = ScenNone
    /\ UNCHANGED <<nWrites, wroteClosed, wroteOpen, pump, ev>>

FullFlow ==
    /\ sluice' = fullFlow(sluice)
    /\ scen' = ScenNone
    /\ UNCHANGED <<nWrites, wroteClosed, wroteOpen, pump, ev>>

Freeze ==
    /\ sluice' = freeze(sluice)
    /\ scen' = ScenNone
    /\ UNCHANGED <<nWrites, wroteClosed, wroteOpen, pump, ev>>

\* pourIn() on a gate whose buffer is empty starts a scenario.
PourIn ==
    /\ sluice' = pourIn(sluice)
    /\ scen' = IF sluice.buffer = <<>> /\ ~sluice.writing
                   THEN [phase |-> "filling", base |-> Len(sluice.out), writes |-> <<>>]
                   ELSE ScenNone
    /\ UNCHANGED <<nWrites, wroteClosed, wroteOpen, pump, ev>>

\* pourOut() after pourIn() and writes only completes the scenario.
PourOut ==
    /\ sluice' = pourOut(sluice)
    /\ scen' = IF scen.phase = "filling"
                   THEN [scen EXCEPT !.phase = "drained"]
                   ELSE ScenNone
    /\ UNCHANGED <<nWrites, wroteClosed, wroteOpen, pump, ev>>

\* The upstream writer calls write(chunk); chunks are numbered 1, 2, ...
Write ==
    /\ nWrites < MaxWrites
    /\ ~sluice.ending
    /\ LET chunk == nWrites + 1 IN
        /\ sluice' = StreamWrite(sluice, chunk)
        /\ nWrites' = chunk
        /\ wroteClosed' = IF sluice.flowIn THEN wroteClosed ELSE wroteClosed \cup {chunk}
        /\ wroteOpen' = IF sluice.flowIn THEN Append(wroteOpen, chunk) ELSE wroteOpen
        /\ scen' = IF scen.phase = "filling"
                       THEN [scen EXCEPT !.writes = Append(@, chunk)]
                       ELSE ScenNone
        /\ UNCHANGED <<pump, ev>>

\* The upstream writer calls end().
End ==
    /\ ~sluice.ending
    /\ sluice' = [sluice EXCEPT !.ending = TRUE]
    /\ scen' = ScenNone
    /\ UNCHANGED <<nWrites, wroteClosed, wroteOpen, pump, ev>>

\* The Writable emits 'finish': end() was called and no write is outstanding.
Finish ==
    /\ sluice.ending /\ ~sluice.finished
    /\ ~sluice.writing /\ sluice.pending = <<>>
    /\ sluice' = SluiceOnFinish(sluice)
    /\ scen' = ScenNone
    /\ UNCHANGED <<nWrites, wroteClosed, wroteOpen, pump, ev>>

\* The downstream consumer asks for data: the Readable calls _read unless a
\* _read is still unanswered or null has been pushed.
DownstreamRead ==
    /\ ~sluice.reading
    /\ Null \notin Range(sluice.out)
    /\ sluice' = SluiceRead([sluice EXCEPT !.reading = TRUE])
    /\ UNCHANGED <<nWrites, wroteClosed, wroteOpen, scen, pump, ev>>

SluiceNext ==
    \/ OpenInlet
    \/ CloseInlet
    \/ OpenOutlet
    \/ CloseOutlet
    \/ PourIn
    \/ PourOut
    \/ FullFlow
    \/ Freeze
    \/ Write
    \/ End
    \/ Finish
    \/ DownstreamRead

SluiceSpec == SluiceInit /\ [][SluiceNext]_vars

(***************************************************************************)
(* Pump: the calls and callbacks                                           *)
(***************************************************************************)

\* The streams a caller may hand to a register call.
Streams == {1, 2}

\* Every call starts with no error thrown.
Call(p) == [p EXCEPT !.threw = "none"]

\* Both a source and a destination are registered.
Armed(p) == p.source # 0 /\ p.destination # 0

\* A call made by a stream's producer or consumer.
StreamCall(p) == [Call(p) EXCEPT !.early = @ \/ ~Armed(p)]

PumpInit ==
    /\ pump = PumpNew
    /\ sluice = SluiceNew
    /\ nWrites = 0
    /\ wroteClosed = {}
    /\ wroteOpen = <<>>
    /\ scen = ScenNone
    /\ ev = EventStreamNew

RegisterReadableSource ==
    /\ \E stream \in Streams, readable \in BOOLEAN :
          pump' = registerReadableSource(Call(pump), stream, readable)
    /\ UNCHANGED <<sluiceVars, ev>>

RegisterWritableSource ==
    /\ \E stream \in Streams, writable \in BOOLEAN :
          pump' = registerWritableSource(Call(pump), stream, writable)
    /\ UNCHANGED <<sluiceVars, ev>>

RegisterReadableDestination ==
    /\ \E stream \in Streams, readable \in BOOLEAN :
          pump' = registerReadableDestination(Call(pump), stream, readable)
    /\ UNCHANGED <<sluiceVars, ev>>

RegisterWritableDestination ==
    /\ \E stream \in Streams, writable \in BOOLEAN :
          pump' = registerWritableDestination(Call(pump), stream, writable)
    /\ UNCHANGED <<sluiceVars, ev>>

\* The readable source pushes its next chunk into its own buffer; 'readable' is
\* scheduled if one is asked for.
SourceProduce ==
    /\ pump.sourceType = "readable"
    /\ ~pump.srcEnded
    /\ pump.srcProduced < MaxChunks
    /\ pump' = [StreamCall(pump) EXCEPT
                    !.srcBuf = Append(@, pump.srcProduced + 1),
                    !.srcProduced = @ + 1,
                    !.srcReadablePending = @ \/ pump.srcNeedReadable,
                    !.srcNeedReadable = FALSE]
    /\ UNCHANGED <<sluiceVars, ev>>

\* The readable source pushes null.  The end of the stream is announced by a
\* 'readable' event; a stream whose buffer is empty may go straight to 'end',
\* and a stream whose last 'readable' has not been followed by a read may
\* announce nothing more.
SourceEof ==
    /\ pump.sourceType = "readable"
    /\ ~pump.srcEnded
    /\ \E announce \in BOOLEAN :
        /\ (~announce) =>
              (pump.srcBuf = <<>> \/ pump.srcReadablePending \/ pump.sourceIsReady)
        /\ pump' = [StreamCall(pump) EXCEPT
                        !.srcEnded = TRUE,
                        !.srcReadablePending = @ \/ announce,
                        !.srcNeedReadable = FALSE,
                        !.srcEndPending = @ \/ (~announce /\ pump.srcBuf = <<>>)]
    /\ UNCHANGED <<sluiceVars, ev>>

\* The 'readable' listener of registerReadableSource.  After the listener the
\* stream either keeps asking for 'readable' while it has not ended (keep) or
\* asks only if the listener's reads left it asking.
SourceReadable ==
    /\ pump.sourceType = "readable"
    /\ pump.srcReadablePending
    /\ \E keep \in BOOLEAN :
        LET p1 == PumpFn([Call(pump) EXCEPT !.srcReadablePending = FALSE,
                                            !.sourceIsReady = TRUE])
        IN  pump' = [p1 EXCEPT !.srcNeedReadable = IF keep THEN ~p1.srcEnded ELSE @]
    /\ UNCHANGED <<sluiceVars, ev>>

\* The 'end' listener of registerReadableSource.  'end' follows every 'readable'
\* scheduled before it.
SourceEndEvent ==
    /\ pump.sourceType = "readable"
    /\ pump.srcEndPending /\ ~pump.srcEndEmitted
    /\ ~pump.srcReadablePending
    /\ pump' = PumpFn([Call(pump) EXCEPT !.srcEndEmitted = TRUE,
                                         !.srcEndPending = FALSE,
                                         !.sourceIsFinished = TRUE])
    /\ UNCHANGED <<sluiceVars, ev>>

\* The source emits 'error'.  registerReadableSource listens with
\* self.destroy(); registerWritableSource installs no 'error' listener.
SourceError ==
    /\ pump.source # 0
    /\ ~pump.errored
    /\ LET p1 == [Call(pump) EXCEPT !.errored = TRUE,
                                    !.errorWithDest = pump.destination # 0]
       IN  pump' = IF pump.sourceType = "readable" THEN destroy(p1, FALSE) ELSE p1
    /\ UNCHANGED <<sluiceVars, ev>>

\* The writer of a writable source calls source.write(chunk).
SourceWrite ==
    /\ pump.sourceType = "writable"
    /\ ~pump.wEnding
    /\ pump.wWritten < MaxChunks
    /\ LET chunk == pump.wWritten + 1
           p1 == [StreamCall(pump) EXCEPT !.wWritten = chunk]
       IN  pump' = IF pump.wWriting
                       THEN [p1 EXCEPT !.wPending = Append(@, chunk)]
                       ELSE SourceWriteHook([p1 EXCEPT !.wWriting = TRUE], chunk)
    /\ UNCHANGED <<sluiceVars, ev>>

\* The writer of a writable source calls source.end().
SourceEnd ==
    /\ pump.sourceType = "writable"
    /\ ~pump.wEnding
    /\ pump' = [StreamCall(pump) EXCEPT !.wEnding = TRUE]
    /\ UNCHANGED <<sluiceVars, ev>>

\* The timer set by the 'finish' listener of registerWritableSource; 'finish' is
\* emitted once end() was called and every write has had its callback.
SourceFinishTimer ==
    /\ pump.sourceType = "writable"
    /\ pump.wEnding /\ ~pump.wWriting /\ pump.wPending = <<>>
    /\ ~pump.wFinishFired
    /\ pump' = PumpFn([Call(pump) EXCEPT !.wFinishFired = TRUE,
                                         !.sourceIsFinished = TRUE])
    /\ UNCHANGED <<sluiceVars, ev>>

\* destination._read installed by registerReadableDestination: the Readable
\* calls it while its buffer is below the highWaterMark, no _read is unanswered
\* and it has not been ended.
DestRead ==
    /\ pump.destinationType = "readable"
    /\ ~pump.dstReading
    /\ pump.closes = 0
    /\ Len(pump.dstBuf) < DstHighWaterMark
    /\ pump' = PumpFn([StreamCall(pump) EXCEPT !.dstReading = TRUE,
                                         !.destinationIsReady = TRUE])
    /\ UNCHANGED <<sluiceVars, ev>>

\* The consumer of a readable destination takes the oldest buffered chunk.
DestConsume ==
    /\ pump.destinationType = "readable"
    /\ pump.dstBuf # <<>>
    /\ pump' = [Call(pump) EXCEPT !.dstBuf = Tail(@)]
    /\ UNCHANGED <<sluiceVars, ev>>

\* A timer set by wait() fires: self.destroy().
DestroyTimer ==
    /\ pump.timers > 0
    /\ pump' = destroy([Call(pump) EXCEPT !.timers = @ - 1], FALSE)
    /\ UNCHANGED <<sluiceVars, ev>>

\* The owner calls destroy(true).
ForceDestroy ==
    /\ ~pump.forced
    /\ pump' = destroy([Call(pump) EXCEPT !.forced = TRUE], TRUE)
    /\ UNCHANGED <<sluiceVars, ev>>

PumpNext ==
    \/ RegisterReadableSource
    \/ RegisterWritableSource
    \/ RegisterReadableDestination
    \/ RegisterWritableDestination
    \/ SourceProduce
    \/ SourceEof
    \/ SourceReadable
    \/ SourceEndEvent
    \/ SourceError
    \/ SourceWrite
    \/ SourceEnd
    \/ SourceFinishTimer
    \/ DestRead
    \/ DestConsume
    \/ DestroyTimer
    \/ ForceDestroy

PumpSpec == PumpInit /\ [][PumpNext]_vars

\* Zero-delay timers fire, and the destination's consumer keeps taking what is
\* buffered for it.
PumpFairSpec ==
    PumpSpec /\ WF_vars(DestroyTimer) /\ WF_vars(DestConsume)

\* eventStream(pumpFn): a Pump constructed with the filter policy, one duplex
\* registered as its writable source and as its readable destination.
PolicyInit ==
    /\ \E accept \in SUBSET (1..MaxChunks) :
          pump = registerReadableDestination(
                     registerWritableSource(
                         [PumpNew EXCEPT !.policy = "filter", !.accept = accept],
                         1, TRUE),
                     1, TRUE)
    /\ sluice = SluiceNew
    /\ nWrites = 0
    /\ wroteClosed = {}
    /\ wroteOpen = <<>>
    /\ scen = ScenNone
    /\ ev = EventStreamNew

PolicyNext ==
    \/ RegisterWritableSource
    \/ RegisterReadableDestination
    \/ SourceError
    \/ SourceWrite
    \/ SourceEnd
    \/ SourceFinishTimer
    \/ DestRead
    \/ DestConsume
    \/ DestroyTimer
    \/ ForceDestroy

PolicySpec == PolicyInit /\ [][PolicyNext]_vars

(***************************************************************************)
(* EventStream: the calls                                                  *)
(***************************************************************************)

EventInit ==
    /\ ev = EventStreamNew
    /\ pump = PumpNew
    /\ sluice = SluiceNew
    /\ nWrites = 0
    /\ wroteClosed = {}
    /\ wroteOpen = <<>>
    /\ scen = ScenNone

Receive ==
    /\ ev.handles < MaxReceivers
    /\ \E matcher \in Matchers : ev' = AddReceiver(ev, matcher, FALSE)
    /\ UNCHANGED <<sluiceVars, pump>>

ReceiveOnce ==
    /\ ev.handles < MaxReceivers
    /\ \E matcher \in Matchers : ev' = AddReceiver(ev, matcher, TRUE)
    /\ UNCHANGED <<sluiceVars, pump>>

\* removeReceiver(handle) with a handle some receive call returned.
RemoveReceiver ==
    /\ \E id \in 1..ev.handles : ev' = removeReceiver(ev, id)
    /\ UNCHANGED <<sluiceVars, pump>>

\* A chunk written to the stream reaches _transform; its data is its number.
Transform ==
    /\ ev.events < MaxEvents
    /\ \E name \in Names :
          ev' = EventTransform(ev, [name |-> name, data |-> ev.events + 1])
    /\ UNCHANGED <<sluiceVars, pump>>

EventNext ==
    \/ Receive
    \/ ReceiveOnce
    \/ RemoveReceiver
    \/ Transform

EventSpec == EventInit /\ [][EventNext]_vars

(***************************************************************************)
(* Sluice: properties                                                      *)
(***************************************************************************)

SluiceTypeOK ==
    /\ sluice.flowIn \in BOOLEAN /\ sluice.flowOut \in BOOLEAN
    /\ Range(sluice.buffer) \subseteq 0..MaxWrites
    /\ Range(sluice.out) \subseteq 0..MaxWrites
    /\ (sluice.pending # <<>> => sluice.writing)

\* C3: a chunk written while the inlet is closed is dropped: it is neither in the
\* queue nor ever handed downstream, whatever valve operations follow.
C3_ClosedInletWriteDropped ==
    \A c \in wroteClosed :
        c \notin Range(sluice.buffer) /\ c \notin Range(sluice.out)

\* C4: pourIn() on an empty gate, then writes only, then pourOut(): the chunks
\* handed downstream by the drain are exactly the chunks written, in write
\* order, and the queue is empty afterwards.
C4_FillThenDrainFlushesAll ==
    scen.phase = "drained" =>
        /\ SubSeq(sluice.out, scen.base + 1, Len(sluice.out)) = scen.writes
        /\ sluice.buffer = <<>>

\* The chunks queued ahead of the completion marker.
AheadOfMarker ==
    LET k == CHOOSE i \in 1..Len(sluice.queued) : sluice.queued[i] = Null
    IN  SubSeq(sluice.queued, 1, k - 1)

\* C6: on upstream end the completion marker is queued instead of closing the
\* downstream side; the downstream side is closed (null handed over) only with
\* the outlet open and only after every chunk queued ahead of the marker has
\* been handed over in order; nothing is handed over after the close.
C6_CompletionNeverOvertakesData ==
    /\ sluice.finished =>
          /\ Null \in Range(sluice.queued)
          /\ sluice.queued[Len(sluice.queued)] = Null
          /\ (Null \in Range(sluice.out) \/ Null \in Range(sluice.buffer))
    /\ Null \in Range(sluice.out) =>
          /\ sluice.finished
          /\ sluice.out = Append(AheadOfMarker, Null)
          /\ sluice.endOutlet = <<TRUE>>

\* C6 witness: two chunks were queued ahead of the marker, all three left the
\* gate, the downstream side is closed.
C6_Witness ==
    /\ Len(sluice.out) >= 3
    /\ sluice.out[Len(sluice.out)] = Null

IsPrefix(p, q) ==
    Len(p) <= Len(q) /\ SubSeq(q, 1, Len(p)) = p

\* C9: while the outlet is closed (before and after a step) the step hands
\* nothing downstream and takes nothing out of the queue, whether it is a write,
\* an inlet toggle, the upstream end or a downstream read request.
C9_ClosedOutletForwardsNothing ==
    [][(~sluice.flowOut /\ ~sluice'.flowOut) =>
          /\ sluice'.out = sluice.out
          /\ IsPrefix(sluice.buffer, sluice'.buffer)]_vars

\* C9 witness: outlet closed, chunks and the completion marker wait in the
\* queue, and a downstream read request is outstanding.
C9_Witness ==
    /\ ~sluice.flowOut
    /\ Len(sluice.buffer) >= 2
    /\ Null \in Range(sluice.buffer)
    /\ sluice.reading
    /\ sluice.out = <<>>

\* C10: every chunk written while the inlet is open has been put in the queue,
\* in write order, the second and later writes included.
C10_OpenInletWriteQueued ==
    SelectSeq(sluice.queued, LAMBDA x : x \in Range(wroteOpen)) = wroteOpen

\* The chunks of a sequence, the completion marker left out.
Chunks(q) == SelectSeq(q, LAMBDA x : x # Null)

\* C11: in every interleaving of writes, valve operations, the upstream end and
\* downstream read requests, what was handed downstream followed by what waits
\* in the queue is the sequence of entries the gate took in, and the chunks
\* among them are in write order, each at most once.
C11_ForwardedThenQueueIsAccepted ==
    /\ sluice.out \o sluice.buffer = sluice.queued
    /\ \A i, j \in 1..Len(Chunks(sluice.queued)) :
           i < j => Chunks(sluice.queued)[i] < Chunks(sluice.queued)[j]

\* C11 witness: one chunk went downstream, then two more were queued behind a
\* closed outlet.
C11_Witness ==
    /\ Len(sluice.out) >= 1
    /\ Len(sluice.buffer) >= 2
    /\ Null \notin Range(sluice.buffer)

\* C12: a valve operation applied a second time changes nothing (valves, queue,
\* downstream output); a single-valve operation leaves the other valve alone;
\* pourIn ends with inlet open and outlet closed, pourOut with inlet closed and
\* outlet open, fullFlow with both open, freeze with both closed, whatever the
\* state before.
C12_ValveOperationsIdempotent ==
    [][/\ (OpenInlet =>
               openInlet(sluice') = sluice'
               /\ sluice'.flowIn /\ sluice'.flowOut = sluice.flowOut)
       /\ (CloseInlet =>
               closeInlet(sluice') = sluice'
               /\ ~sluice'.flowIn /\ sluice'.flowOut = sluice.flowOut)
       /\ (OpenOutlet =>
               openOutlet(sluice') = sluice'
               /\ sluice'.flowOut /\ sluice'.flowIn = sluice.flowIn)
       /\ (CloseOutlet =>
               closeOutlet(sluice') = sluice'
               /\ ~sluice'.flowOut /\ sluice'.flowIn = sluice.flowIn)
       /\ (PourIn =>
               pourIn(sluice') = sluice' /\ sluice'.flowIn /\ ~sluice'.flowOut)
       /\ (PourOut =>
               pourOut(sluice') = sluice' /\ ~sluice'.flowIn /\ sluice'.flowOut)
       /\ (FullFlow =>
               fullFlow(sluice') = sluice' /\ sluice'.flowIn /\ sluice'.flowOut)
       /\ (Freeze =>
               freeze(sluice') = sluice' /\ ~sluice'.flowIn /\ ~sluice'.flowOut)]_vars

\* C12 witness: pourOut() has drained a gate that pourIn() had filled: inlet
\* closed, outlet open, the queue flushed downstream.
C12_Witness ==
    /\ scen.phase = "drained"
    /\ ~sluice.flowIn /\ sluice.flowOut
    /\ Len(sluice.out) >= 1
    /\ sluice.buffer = <<>>

(***************************************************************************)
(* Pump: properties                                                        *)
(***************************************************************************)

\* The number of chunks the registered source has produced so far.
Produced ==
    IF pump.sourceType = "readable" THEN pump.srcProduced
    ELSE IF pump.sourceType = "writable" THEN pump.wWritten
    ELSE 0

\* C1: in every pairing and at every moment the chunks handed to the
\* destination are the first chunks the source produced, each once and in the
\* order of production: nothing twice, nothing skipped, nothing reordered.
C1_DeliveredIsPrefixOfProduced ==
    /\ Len(pump.delivered) <= Produced
    /\ \A i \in 1..Len(pump.delivered) : pump.delivered[i] = i

\* C1 witness: a writable source and a readable destination, the destination
\* asked for data before the source had any, and every chunk has been handed
\* over while another read request is outstanding.
C1_Witness ==
    /\ pump.sourceType = "writable" /\ pump.destinationType = "readable"
    /\ Len(pump.delivered) = MaxChunks
    /\ pump.destinationIsReady
    /\ Len(pump.nextCalls) = MaxChunks

\* A callback of the source, the destination or a timer can still run.
CallbackPending ==
    \/ ENABLED SourceReadable
    \/ ENABLED SourceEndEvent
    \/ ENABLED SourceFinishTimer
    \/ ENABLED DestRead
    \/ ENABLED DestConsume
    \/ ENABLED DestroyTimer

\* The source has produced MaxChunks chunks and then finished, both ends were
\* registered before either stream became active, and there was no error and
\* no forced destroy.
SourceDone ==
    /\ pump.sourceType # "none" /\ pump.destinationType # "none"
    /\ Produced = MaxChunks
    /\ (pump.sourceType = "readable" => pump.srcEnded)
    /\ (pump.sourceType = "writable" => pump.wEnding)
    /\ ~pump.errored /\ ~pump.forced /\ ~pump.early

\* C2: once the source has produced its chunks and finished, the Pump comes to
\* rest (no callback left to run, the destination's consumer having taken all
\* it was given) only with every chunk handed over and the destination closed.
C2_RestsOnlyWhenAllDeliveredAndClosed ==
    (SourceDone /\ ~CallbackPending) =>
        (Len(pump.delivered) = MaxChunks /\ pump.closes >= 1)

\* C5: no end-of-data is signalled to a readable destination that still holds
\* an unconsumed chunk, unless by destroy(true).
C5_NoEndWhileDestinationHoldsChunk ==
    ~pump.unsafeEnd

\* Everything of the Pump and its streams but the error a call threw.
Untouched(p) == [p EXCEPT !.threw = "none"]

\* C7: a register call that throws leaves the Pump untouched; a registered
\* source or destination and its type are never replaced; a role is
\* registered exactly when its type is set.
C7_FailedRegistrationChangesNothing ==
    /\ [][pump'.threw # "none" => Untouched(pump') = Untouched(pump)]_vars
    /\ [][pump.source # 0 =>
            (pump'.source = pump.source /\ pump'.sourceType = pump.sourceType)]_vars
    /\ [][pump.destination # 0 =>
            (pump'.destination = pump.destination
             /\ pump'.destinationType = pump.destinationType)]_vars
    /\ [](pump.source = 0 <=> pump.sourceType = "none")
    /\ [](pump.destination = 0 <=> pump.destinationType = "none")

\* C7 witness: a second source was refused on a Pump that has transferred a
\* chunk and holds a ready source.
C7_Witness ==
    /\ pump.threw = "There is already a source"
    /\ pump.source = 1
    /\ pump.sourceIsReady
    /\ Len(pump.delivered) >= 1

\* C7 witness, capability: a stream that is not readable was refused as
\* destination and the role is still free.
C7_WitnessCapability ==
    /\ pump.threw = "This stream is not readable"
    /\ pump.destination = 0
    /\ pump.source # 0

\* C8: once the source has emitted 'error' on a Pump with a destination, the
\* destination has been closed, in that very step.
C8_SourceErrorClosesDestination ==
    pump.errorWithDest => pump.closes >= 1

\* What a transfer or a termination step leaves behind: what the destination
\* was handed, its buffer, the end signals, the timers, the continuations.
Effects(p) ==
    <<p.delivered, p.nullHanded, p.closes, p.lateHanded, p.dstBuf, p.timers,
      p.nextCalls, p.attempts, p.seen>>

BothReady(p) == p.sourceIsReady /\ p.destinationIsReady

\* C13 as stated: whenever source-ready and destination-ready do not both
\* hold, pump() changes nothing at all.
C13_PumpIsNoOpUnlessBothReady ==
    ~BothReady(pump) => PumpFn(pump) = pump

\* C13: whenever source-ready and destination-ready do not both hold and the
\* source has not finished, pump() changes nothing, so a readiness callback
\* that finds the other side not ready only sets its own flag; once the
\* source has finished, pump() without both flags is destroy().
C13_PumpIsNoOpUnlessBothReadyOrFinished ==
    /\ []((~BothReady(pump) /\ ~pump.sourceIsFinished) => PumpFn(pump) = pump)
    /\ []((~BothReady(pump) /\ pump.sourceIsFinished) =>
              PumpFn(pump) = destroy(pump, FALSE))
    /\ [][(DestRead /\ ~pump.sourceIsReady /\ ~pump.sourceIsFinished) =>
              /\ Effects(pump') = Effects(pump)
              /\ pump'.destinationIsReady
              /\ pump'.sourceIsReady = pump.sourceIsReady
              /\ pump'.sourceIsFinished = pump.sourceIsFinished]_vars
    /\ [][(SourceReadable /\ ~pump.destinationIsReady /\ ~pump.sourceIsFinished) =>
              /\ Effects(pump') = Effects(pump)
              /\ pump'.sourceIsReady
              /\ pump'.destinationIsReady = pump.destinationIsReady
              /\ pump'.sourceIsFinished = pump.sourceIsFinished]_vars

\* C13 witness: the second chunk of a writable source is held, its _write has
\* called pump(), and nothing moved because the readable destination has not
\* asked again.
C13_Witness ==
    /\ pump.sourceType = "writable" /\ pump.destinationType = "readable"
    /\ pump.sourceIsReady /\ ~pump.destinationIsReady
    /\ ~pump.sourceIsFinished /\ ~pump.early
    /\ pump.lastChunk = 2
    /\ pump.delivered = <<1>>

\* The condition an unforced destroy() tests before it ends the destination.
SafeToEnd(p) ==
    /\ ~(p.destinationType = "readable" /\ Len(p.dstBuf) # 0)
    /\ ~(p.sourceType = "writable" /\ ~p.wEnding)

\* C14: an unforced destroy() that finds the destination's buffer not empty
\* (or the writable source not ended) gives no end signal and leaves a timer
\* pending, both when the source's finish starts it and when a timer re-runs
\* it; and once the source has finished, the destination is eventually given
\* its end signal, timers and the destination's consumer being scheduled
\* fairly.
C14_DeferredTerminationCompletes ==
    /\ [][(DestroyTimer /\ ~SafeToEnd(pump)) =>
              (pump'.closes = pump.closes /\ pump'.timers >= 1)]_vars
    /\ [][(~pump.sourceIsFinished /\ pump'.sourceIsFinished
           /\ ~BothReady(pump) /\ ~SafeToEnd(pump)) =>
              (pump'.closes = pump.closes /\ pump'.timers >= 1)]_vars
    /\ ((pump.sourceIsFinished /\ ~pump.early) ~> (pump.closes >= 1))

\* C14 witness: the source finished while the destination still held chunks,
\* destroy() put itself off, the consumer emptied the buffer, and a later
\* re-check ended the destination; no error, no destroy(true), no null
\* handed over by a transfer.
C14_Witness ==
    /\ pump.sourceIsFinished /\ pump.waited
    /\ pump.closes = 1 /\ pump.timers = 0
    /\ ~pump.forced /\ ~pump.errored /\ ~pump.early
    /\ pump.nullHanded = 0
    /\ Len(pump.delivered) = MaxChunks

\* C15: destroy(true) on a Pump with a registered destination gives the
\* destination its end signal in that very step and sets no timer, whatever
\* the destination still holds and whether or not the writable source ended.
C15_ForcedDestroyClosesAtOnce ==
    [][(~pump.forced /\ pump'.forced /\ pump.destination # 0) =>
          (pump'.closes = pump.closes + 1 /\ pump'.timers = pump.timers)]_vars

\* C15 witness: destroy(true) ended a readable destination that still holds a
\* chunk, fed by a writable source that has not ended.
C15_Witness ==
    /\ pump.forced
    /\ pump.sourceType = "writable" /\ ~pump.wEnding
    /\ pump.destinationType = "readable" /\ pump.dstBuf # <<>>
    /\ pump.closes = 1
    /\ ~pump.waited

\* C16: a transfer starts only with both flags set, and every transfer hands
\* the destination exactly one chunk of the source: as many chunks reach the
\* destination in a step as transfers were started in it, and no transfer
\* hands over an absent chunk (null).
C16_EachTransferMovesOneChunk ==
    [][pump'.attempts > pump.attempts =>
          /\ Len(pump'.delivered) - Len(pump.delivered)
                 = pump'.attempts - pump.attempts
          /\ pump'.nullHanded = pump.nullHanded]_vars

\* C17: with a writable source, a continuation is invoked only after its chunk
\* was handed to the destination, the continuations invoked are exactly those
\* of the chunks handed over, each once and in order, and the held chunk is
\* either the last one handed over or the next one, still waiting with its
\* continuation not invoked; it is replaced only once it has been handed over.
C17_ContinuationFollowsDelivery ==
    /\ [](pump.sourceType = "writable" =>
            /\ ~pump.nextEarly
            /\ pump.nextCalls = pump.delivered
            /\ (pump.lastChunk # Null =>
                   \/ pump.lastChunk = Len(pump.delivered)
                   \/ /\ pump.lastChunk = Len(pump.delivered) + 1
                      /\ pump.sourceIsReady /\ pump.wWriting))
    /\ [][pump'.lastChunk # pump.lastChunk =>
            (pump.lastChunk = Null \/ pump.lastChunk \in Range(pump'.delivered))]_vars

\* C17 witness: writable source and writable destination; three chunks were
\* captured one after the other and each continuation followed its hand-over.
C17_Witness ==
    /\ pump.sourceType = "writable" /\ pump.destinationType = "writable"
    /\ pump.nextCalls = <<1, 2, 3>>
    /\ pump.lastChunk = 3
    /\ ~pump.early

\* The pairings by source type and destination type.
Pairing(p, src, dst) == p.sourceType = src /\ p.destinationType = dst

\* C18 as stated: with a readable source and a writable destination both
\* flags are clear after every transfer.
C18_TransferClearsBothFlags ==
    [][(Pairing(pump, "readable", "writable") /\ pump'.attempts > pump.attempts) =>
          (~pump'.sourceIsReady /\ ~pump'.destinationIsReady)]_vars

\* C18: with a readable source and a writable destination the destination flag
\* is set from registration on and a transfer leaves it set; every transfer
\* leaves the source flag clear, and (both ends registered before the streams
\* were used) the source flag is clear between callbacks, so that a transfer
\* happens only in a 'readable' callback of the source, one per callback.
C18_TransferClearsSourceFlagOnly ==
    /\ [](Pairing(pump, "readable", "writable") => pump.destinationIsReady)
    /\ []((Pairing(pump, "readable", "writable") /\ ~pump.early) =>
              ~pump.sourceIsReady)
    /\ [][(Pairing(pump, "readable", "writable") /\ pump'.attempts > pump.attempts) =>
              /\ ~pump'.sourceIsReady /\ pump'.destinationIsReady
              /\ pump'.attempts = pump.attempts + 1
              /\ (~pump.early => SourceReadable)]_vars

\* C18 witness: two chunks went from a readable source to a writable
\* destination, one per 'readable'; source flag clear, destination flag set.
C18_Witness ==
    /\ Pairing(pump, "readable", "writable")
    /\ pump.delivered = <<1, 2>>
    /\ pump.attempts = 2
    /\ ~pump.sourceIsReady /\ pump.destinationIsReady
    /\ ~pump.early

\* C19: with a readable source and a readable destination a transfer clears
\* the destination flag only: the source flag is still set after it.
C19_SourceReadinessPersists ==
    [][(Pairing(pump, "readable", "readable") /\ pump'.attempts > pump.attempts) =>
          (pump'.sourceIsReady /\ ~pump'.destinationIsReady)]_vars

\* C20: on a Pump constructed with the filter policy, every transfer invokes
\* the policy once, with the chunks of the source in order, and nothing else
\* hands chunks to the destination: what the destination received is what the
\* policy let through.  After a transfer whose last chunk the policy skipped
\* (re-setting destinationIsReady) the flag is still set, and a write of the
\* source that finds the flag set is transferred in the same step, without a
\* _read of the destination in between.
C20_PolicyReplacesRelayAndKeepsReadiness ==
    /\ [](Len(pump.seen) = pump.attempts)
    /\ [](\A i \in 1..Len(pump.seen) : pump.seen[i] = i)
    /\ [](pump.delivered = SelectSeq(pump.seen, LAMBDA c : c \in pump.accept))
    /\ [][(pump'.attempts > pump.attempts
           /\ pump'.seen[Len(pump'.seen)] \notin pump.accept) =>
              pump'.destinationIsReady]_vars
    /\ [][(SourceWrite /\ pump.destinationIsReady /\ ~pump.wWriting) =>
              pump'.seen = Append(pump.seen, pump'.wWritten)]_vars

\* C20 witness: the filter lets only chunk 2 through; chunks 1, 2 and 3 were
\* each given to the policy once, chunk 2 reached the destination, and after
\* the skipped chunk 3 the destination flag is set.
C20_Witness ==
    /\ pump.policy = "filter" /\ pump.accept = {2}
    /\ pump.seen = <<1, 2, 3>>
    /\ pump.delivered = <<2>>
    /\ pump.attempts = 3
    /\ pump.destinationIsReady

(***************************************************************************)
(* Sluice: flow control and completion                                     *)
(***************************************************************************)

\* C21: a step hands the downstream side a chunk only when the downstream
\* consumer has asked for data (a read request is outstanding, or the step is
\* the read request), and then one chunk.
C21_ForwardsOnDownstreamDemand ==
    [][sluice'.out # sluice.out =>
          /\ (sluice.reading \/ DownstreamRead)
          /\ Len(sluice'.out) = Len(sluice.out) + 1]_vars

\* C22: _write runs to its end within a write() call, so between calls no
\* write is waiting for its continuation and none is held back behind it.
C22_EveryWriteCompletes ==
    ~sluice.writing /\ sluice.pending = <<>>

\* C23: once the upstream side has finished with the outlet open, the gate
\* comes to rest (no downstream read request can still reach _read) only with
\* the downstream side closed.
C23_ClosesDownstreamAfterEnd ==
    (sluice.finished /\ sluice.flowOut /\ ~ENABLED DownstreamRead) =>
        Null \in Range(sluice.out)

(***************************************************************************)
(* Pump: termination happens once                                          *)
(***************************************************************************)

\* C24: without an error of the source, without destroy(true) and without a
\* null handed over by a transfer, the destination is given its end signal at
\* most once, whatever the order of the source's finish, the readiness
\* callbacks and the pending re-checks.
C24_DestinationClosedAtMostOnce ==
    (~pump.forced /\ ~pump.errored /\ ~pump.early /\ pump.nullHanded = 0) =>
        pump.closes <= 1

\* C25: no chunk is handed to a destination that destroy() has given its end
\* signal.
C25_NoDeliveryAfterClose ==
    pump.nullHanded = 0 => pump.lateHanded = 0

(***************************************************************************)
(* EventStream: properties                                                 *)
(***************************************************************************)

\* C26: the calls of the last dispatch are one call fn(data), with the data of
\* the chunk, for each receiver that was registered and matching when the
\* chunk arrived, and no other call; the fn of a receiveOnce receiver has
\* been called at most once over the life of the stream.
C26_EveryMatchingReceiverInvokedOnce ==
    /\ \A id \in ev.expected :
          Cardinality({k \in 1..Len(ev.invoked) : ev.invoked[k][1] = id}) = 1
    /\ \A k \in 1..Len(ev.invoked) :
          ev.invoked[k][1] \in ev.expected /\ ev.invoked[k][2] = ev.events
    /\ \A id \in ev.onceHandles : ev.calls[id] <= 1

====
